---- MODULE Spec2Model ----
(***************************************************************************)
(* Adaptive difficulty controller of the quiz game                         *)
(* (src/difficulty_manager.py, class DifficultyManager), the progress file *)
(* (src/user_progress.py, class UserProgress) and the button handlers of   *)
(* the window (src/quiz_game.py, class QuizGame).                          *)
(*                                                                         *)
(* Booleans of recent_performance are kept as TRUE/FALSE; sum() of the     *)
(* list is the number of TRUE entries.  The thresholds 0.8 and 0.4 are     *)
(* kept as percentages (80, 40): `sum/len >= t` is `100*sum >= t*len`,     *)
(* which is exact for the window lengths and two-digit thresholds used.    *)
(* List indices are 0-based as in the source; LevelAt converts.            *)
(***************************************************************************)
EXTENDS Integers, Sequences, FiniteSets, TLC

\* ------------------------------------------------------------------ bounds
\* longest run of update_difficulty calls explored between two clears
MaxLog == 8
\* largest window size explored by the configurable specification
MaxWindow == 5
\* largest stored questions_answered explored for the progress file alone
MaxStored == 4
\* largest questions_answered of one save explored for the progress file alone
MaxSession == 2
\* graded submissions explored in the game, over all launches
MaxAnswers == 6
\* calls of one unbroken run of equal outcomes followed from a state
Horizon == 12

\* --------------------------------------------------------------- constants
DefaultWindow == 5
DefaultPromotion == 80
DefaultDemotion == 40
\* number of entries _reset_performance_tracking keeps
Keep == 2

levels == <<"easy", "medium", "hard">>

\* arguments tried for force_level: the members of levels and two non-members
LevelArgs == {"easy", "medium", "hard", "expert", ""}
\* threshold percentages tried by the configurable specification
ThresholdChoices == {20, 40, 80}

VARIABLES
    current_level,          \* self.current_level
    recent_performance,     \* self.recent_performance
    performance_window,     \* self.performance_window
    promotion_threshold,    \* self.promotion_threshold (percent)
    demotion_threshold,     \* self.demotion_threshold (percent)
    last,                   \* observer: the call that produced this state
                            \*   (level/history before it, the window after
                            \*   append and evict, the transition made, and
                            \*   gap = calls since the previous transition,
                            \*   this one included, -1 when there was none)
    log,                    \* observer: outcomes passed to update_difficulty
                            \*   since construction / force_level / reset
    start_level,            \* observer: level when log was last emptied
    since,                  \* observer: update_difficulty calls since the
                            \*   last transition they made (-1: none yet)
    file_exists,            \* os.path.exists(self.stats_path)
    stats_file,             \* the dict stored in data/user_stats.json
    bank,                   \* levels whose list in QuestionManager.questions
                            \*   is not empty
    game_active,            \* QuizGame.game_active
    questions_answered,     \* QuizGame.questions_answered
    correct_answers,        \* QuizGame.correct_answers
    current_question,       \* QuizGame.current_question: "none" or the
                            \*   difficulty of the question
    selected_answer,        \* QuizGame.selected_answer: "", "right" (the
                            \*   question's correct_answer) or "wrong"
    answer_buttons,         \* the radio buttons exist
    start_button,           \* state of the Start Quiz button
    submit_button,          \* state of the Submit Answer button
    next_button,            \* state of the Next Question button
    score_label,            \* number shown by score_label
    event,                  \* observer: the handler that produced this state
    graded,                 \* observer: outcomes recorded for the question
                            \*   on display
    answers,                \* observer: graded submissions since the first
                            \*   launch
    session_start           \* observer: the counters of the progress file
                            \*   when Start Quiz was last clicked

dmVars == <<current_level, recent_performance>>
cfgVars == <<performance_window, promotion_threshold, demotion_threshold>>
obsVars == <<last, log, start_level, since>>
fileVars == <<file_exists, stats_file>>
guiVars == <<bank, game_active, questions_answered, correct_answers,
             current_question, selected_answer, answer_buttons,
             start_button, submit_button, next_button, score_label>>
appObsVars == <<event, graded, answers, session_start>>
appVars == <<fileVars, guiVars, appObsVars>>
vars == <<current_level, recent_performance, performance_window,
          promotion_threshold, demotion_threshold, last, log, start_level, since,
          file_exists, stats_file, bank, game_active, questions_answered,
          correct_answers, current_question, selected_answer, answer_buttons,
          start_button, submit_button, next_button, score_label,
          event, graded, answers, session_start>>

\* ------------------------------------------------------------ list helpers
RECURSIVE Sum(_)
\* sum(list of bool)
Sum(h) == IF h = <<>> THEN 0 ELSE (IF Head(h) THEN 1 ELSE 0) + Sum(Tail(h))

\* h[-n:] of Python, for n >= 1
LastN(h, n) == IF Len(h) <= n THEN h ELSE SubSeq(h, Len(h) - n + 1, Len(h))

\* slip: the membership test is left out
IsLevelAlways(level) == TRUE

\* level in self.levels
IsLevel(level) == \E i \in 1..Len(levels) : levels[i] = level

\* self.levels.index(level), 0-based
LevelIndex(level) == (CHOOSE i \in 1..Len(levels) : levels[i] = level) - 1

\* self.levels[i], 0-based; a negative index counts from the end of the list
LevelAt(i) == IF i < 0 THEN levels[Len(levels) + i + 1] ELSE levels[i + 1]

\* ------------------------------------------------------- update_difficulty
\* slip: the eviction is left out
EvictNever(h, w) == h

\* slip: pop() instead of pop(0), the newest entry is dropped
EvictNewest(h, w) == IF Len(h) > w THEN SubSeq(h, 1, Len(h) - 1) ELSE h

\* slip: the eviction starts one entry late (> window + 1)
EvictLate(h, w) == IF Len(h) > w + 1 THEN Tail(h) ELSE h

\* lines 22-23: if len(recent_performance) > performance_window: pop(0)
Evict(h, w) == IF Len(h) > w THEN Tail(h) ELSE h

\* slip: off by one, evaluation starts one answer early
EnoughDataEarly(h, w) == Len(h) >= w - 1

\* line 26: len(self.recent_performance) >= self.performance_window
EnoughData(h, w) == Len(h) >= w

\* slip: > instead of >=
MeetsPromotionStrict(h, p) == 100 * Sum(h) > p * Len(h)

\* slip: the threshold is taken 20 points too low
MeetsPromotionLoose(h, p) == 100 * Sum(h) >= (p - 20) * Len(h)

\* line 32, first conjunct: accuracy >= self.promotion_threshold
MeetsPromotion(h, p) == 100 * Sum(h) >= p * Len(h)

\* slip: < instead of <=
MeetsDemotionStrict(h, d) == 100 * Sum(h) < d * Len(h)

\* line 38, first conjunct: accuracy <= self.demotion_threshold
MeetsDemotion(h, d) == 100 * Sum(h) <= d * Len(h)

\* slip: the lowest level is not excluded from demotion
DecideDemoteAtLowest(h, idx, w, p, d) ==
    IF EnoughData(h, w)
    THEN IF MeetsPromotion(h, p) /\ idx < Len(levels) - 1 THEN "Promoted"
         ELSE IF MeetsDemotion(h, d) /\ idx >= 0 THEN "Demoted"
         ELSE "NoChange"
    ELSE "NoChange"

\* slip: the two branches are in the other order
DecideDemotionFirst(h, idx, w, p, d) ==
    IF EnoughData(h, w)
    THEN IF MeetsDemotion(h, d) /\ idx > 0 THEN "Demoted"
         ELSE IF MeetsPromotion(h, p) /\ idx < Len(levels) - 1 THEN "Promoted"
         ELSE "NoChange"
    ELSE "NoChange"

\* lines 26-41: the if / elif that selects the transition
Decide(h, idx, w, p, d) ==
    IF EnoughData(h, w)
    THEN IF MeetsPromotion(h, p) /\ idx < Len(levels) - 1 THEN "Promoted"
         ELSE IF MeetsDemotion(h, d) /\ idx > 0 THEN "Demoted"
         ELSE "NoChange"
    ELSE "NoChange"

\* slip: four entries survive a transition instead of two
ResetKeepsFour(h) == LastN(h, 4)

\* slip: nothing survives a transition
ResetClearsAll(h) == <<>>

\* lines 43-49: _reset_performance_tracking
ResetPerformanceTracking(h) == IF Len(h) > Keep THEN LastN(h, Keep) ELSE <<>>

\* lines 16-41: the level and the history the call leaves, as a function of
\* those it finds in s = [level, history]
UpdateDifficultyResult(s, is_correct) ==
    LET window == Evict(Append(s.history, is_correct), performance_window)
        idx == LevelIndex(s.level)
        result == Decide(window, idx, performance_window,
                         promotion_threshold, demotion_threshold)
    IN [level |-> CASE result = "Promoted" -> LevelAt(idx + 1)
                    [] result = "Demoted" -> LevelAt(idx - 1)
                    [] OTHER -> s.level,
        history |-> IF result = "NoChange" THEN window
                    ELSE ResetPerformanceTracking(window)]

\* lines 16-41: the call, on the controller's fields
DmUpdateDifficulty(is_correct) ==
    /\ Len(log) < MaxLog
    /\ LET window == Evict(Append(recent_performance, is_correct), performance_window)
           idx == LevelIndex(current_level)
           result == Decide(window, idx, performance_window,
                            promotion_threshold, demotion_threshold)
       IN /\ current_level' = CASE result = "Promoted" -> LevelAt(idx + 1)
                                [] result = "Demoted" -> LevelAt(idx - 1)
                                [] OTHER -> current_level
          /\ recent_performance' = IF result = "NoChange" THEN window
                                   ELSE ResetPerformanceTracking(window)
          /\ last' = [op |-> "update_difficulty", arg |-> "", is_correct |-> is_correct,
                      level |-> current_level, history |-> recent_performance,
                      window |-> window, result |-> result,
                      gap |-> IF since = -1 THEN -1 ELSE since + 1]
          /\ since' = IF result # "NoChange" THEN 0
                      ELSE IF since = -1 THEN -1 ELSE since + 1
    /\ log' = Append(log, is_correct)
    /\ UNCHANGED <<cfgVars, start_level>>

\* lines 16-41: the controller called on its own
UpdateDifficulty(is_correct) == DmUpdateDifficulty(is_correct) /\ UNCHANGED appVars

\* slip: the history survives a forced level
ForceLevelKeepsHistory(level) ==
    /\ IF IsLevel(level)
       THEN /\ current_level' = level
            /\ UNCHANGED recent_performance
            /\ log' = <<>>
            /\ start_level' = level
            /\ since' = -1
       ELSE UNCHANGED <<dmVars, log, start_level, since>>
    /\ last' = [op |-> "force_level", arg |-> level, is_correct |-> FALSE,
                level |-> current_level, history |-> recent_performance,
                window |-> recent_performance,
                result |-> IF IsLevel(level) THEN "Forced" ELSE "InvalidLevel",
                gap |-> -1]
    /\ UNCHANGED <<cfgVars, appVars>>

\* slip: the history is cleared outside the membership test
ForceLevelClearsAlways(level) ==
    /\ IF IsLevel(level)
       THEN /\ current_level' = level
            /\ start_level' = level
       ELSE UNCHANGED <<current_level, start_level>>
    /\ recent_performance' = <<>>
    /\ log' = <<>>
    /\ since' = -1
    /\ last' = [op |-> "force_level", arg |-> level, is_correct |-> FALSE,
                level |-> current_level, history |-> recent_performance,
                window |-> recent_performance,
                result |-> IF IsLevel(level) THEN "Forced" ELSE "InvalidLevel",
                gap |-> -1]
    /\ UNCHANGED <<cfgVars, appVars>>

\* lines 68-75
ForceLevel(level) ==
    /\ IF IsLevel(level)
       THEN /\ current_level' = level
            /\ recent_performance' = <<>>
            /\ log' = <<>>
            /\ start_level' = level
            /\ since' = -1
       ELSE UNCHANGED <<dmVars, log, start_level, since>>
    /\ last' = [op |-> "force_level", arg |-> level, is_correct |-> FALSE,
                level |-> current_level, history |-> recent_performance,
                window |-> recent_performance,
                result |-> IF IsLevel(level) THEN "Forced" ELSE "InvalidLevel",
                gap |-> -1]
    /\ UNCHANGED <<cfgVars, appVars>>

\* slip: only the level is reset
ResetLevelOnly ==
    /\ current_level' = "easy"
    /\ UNCHANGED recent_performance
    /\ log' = <<>>
    /\ start_level' = "easy"
    /\ since' = -1
    /\ last' = [op |-> "reset", arg |-> "", is_correct |-> FALSE,
                level |-> current_level, history |-> recent_performance,
                window |-> recent_performance, result |-> "Reset", gap |-> -1]
    /\ UNCHANGED <<cfgVars, appVars>>

\* lines 77-81: the call, on the controller's fields
DmReset ==
    /\ current_level' = "easy"
    /\ recent_performance' = <<>>
    /\ log' = <<>>
    /\ start_level' = "easy"
    /\ since' = -1
    /\ last' = [op |-> "reset", arg |-> "", is_correct |-> FALSE,
                level |-> current_level, history |-> recent_performance,
                window |-> recent_performance, result |-> "Reset", gap |-> -1]
    /\ UNCHANGED cfgVars

\* lines 77-81: the controller called on its own
Reset == DmReset /\ UNCHANGED appVars

\* lines 83-86
CanPromote(level) == LevelIndex(level) < Len(levels) - 1

\* lines 88-91
CanDemote(level) == LevelIndex(level) > 0

\* lines 8-14: the observation of a construction
Constructed ==
    [op |-> "__init__", arg |-> "", is_correct |-> FALSE, level |-> "easy", history |-> <<>>,
     window |-> <<>>, result |-> "Constructed", gap |-> -1]

\* ------------------------------------------------------------------ queries
\* slip: the fixed window size is the denominator
GetCurrentAccuracyOverWindow(h) ==
    IF h = <<>> THEN [num |-> 0, den |-> 1]
    ELSE [num |-> 100 * Sum(h), den |-> DefaultWindow]

\* lines 51-55: the percentage (sum / len) * 100 as the fraction num / den
GetCurrentAccuracy(h) ==
    IF h = <<>> THEN [num |-> 0, den |-> 1]
    ELSE [num |-> 100 * Sum(h), den |-> Len(h)]

\* lines 93-98
GetNextLevel(level) ==
    IF LevelIndex(level) < Len(levels) - 1 THEN LevelAt(LevelIndex(level) + 1)
    ELSE level

\* lines 100-105
GetPreviousLevel(level) ==
    IF LevelIndex(level) > 0 THEN LevelAt(LevelIndex(level) - 1)
    ELSE level

\* lines 57-66
GetDifficultyInfo ==
    [current_level |-> current_level,
     level_index |-> LevelIndex(current_level),
     total_levels |-> Len(levels),
     recent_accuracy |-> GetCurrentAccuracy(recent_performance),
     questions_in_window |-> Len(recent_performance),
     window_size |-> performance_window]

\* a query call: the value it returns is observed, no field is assigned
Observed(op, value) ==
    /\ last' = [op |-> op, arg |-> "", is_correct |-> FALSE,
                level |-> current_level, history |-> recent_performance,
                window |-> recent_performance, result |-> "Query", gap |-> -1,
                value |-> value]
    /\ UNCHANGED <<log, start_level, since, cfgVars, appVars>>

\* lines 83-86
CanPromoteCall == Observed("can_promote", CanPromote(current_level)) /\ UNCHANGED dmVars

\* lines 88-91
CanDemoteCall == Observed("can_demote", CanDemote(current_level)) /\ UNCHANGED dmVars

\* slip: the peek moves to the level it returns
GetNextLevelAdvances ==
    /\ Observed("get_next_level", GetNextLevel(current_level))
    /\ current_level' = GetNextLevel(current_level)
    /\ UNCHANGED recent_performance

\* lines 93-98
GetNextLevelCall ==
    Observed("get_next_level", GetNextLevel(current_level)) /\ UNCHANGED dmVars

\* lines 100-105
GetPreviousLevelCall ==
    Observed("get_previous_level", GetPreviousLevel(current_level)) /\ UNCHANGED dmVars

\* lines 51-55
GetCurrentAccuracyCall ==
    Observed("get_current_accuracy", GetCurrentAccuracy(recent_performance))
    /\ UNCHANGED dmVars

\* lines 57-66
GetDifficultyInfoCall ==
    Observed("get_difficulty_info", GetDifficultyInfo) /\ UNCHANGED dmVars

\* ------------------------------------------------------------ user_progress
\* Python dicts are functions from keys to values.  The keys level_statistics,
\* created_date and last_updated are left out: no operation reads them back.
EmptyDict == [k \in {} |-> 0]

\* a dict literal
Dict(r) == [k \in DOMAIN r |-> r[k]]

\* d.get(k, default)
Get(d, k, default) == IF k \in DOMAIN d THEN d[k] ELSE default

\* d[k] = v
Put(d, k, v) == [x \in (DOMAIN d) \cup {k} |-> IF x = k THEN v ELSE d[x]]

\* the counters of the stored dict d that _merge_stats adds to (lines 88-95),
\* read as the code reads them, a missing key being 0
StoredCounters(d) ==
    [questions_answered |-> Get(d, "questions_answered", 0),
     correct_answers |-> Get(d, "correct_answers", 0),
     sessions_played |-> Get(d, "sessions_played", 0)]

RECURSIVE Gcd(_, _)
Gcd(a, b) == IF b = 0 THEN a ELSE Gcd(b, a % b)

\* the float n / d as a fraction in lowest terms (d > 0)
Frac(n, d) == [num |-> n \div Gcd(n, d), den |-> d \div Gcd(n, d)]

\* max(a, b) of two such fractions
MaxFrac(a, b) == IF b.num * a.den > a.num * b.den THEN b ELSE a

\* user_progress.py lines 64-80: _get_initial_stats
InitialStats ==
    Dict([current_level |-> "easy", questions_answered |-> 0, correct_answers |-> 0,
          total_score |-> 0, sessions_played |-> 0, best_accuracy |-> Frac(0, 1)])

\* slip: the stored level is looked up first, the new one is only the default
MergeStatsStaleLevel(existing, new) ==
    LET m1 == Put(existing, "current_level",
                  Get(existing, "current_level", Get(new, "current_level", "easy")))
        m2 == Put(m1, "questions_answered",
                  Get(existing, "questions_answered", 0) + Get(new, "questions_answered", 0))
        m3 == Put(m2, "correct_answers",
                  Get(existing, "correct_answers", 0) + Get(new, "correct_answers", 0))
        m4 == Put(m3, "total_score",
                  Get(existing, "total_score", 0) + Get(new, "total_score", 0))
        m5 == IF Get(new, "questions_answered", 0) > 0
              THEN Put(m4, "sessions_played", Get(existing, "sessions_played", 0) + 1)
              ELSE m4
    IN IF m5["questions_answered"] > 0
       THEN Put(m5, "best_accuracy",
                MaxFrac(Get(existing, "best_accuracy", Frac(0, 1)),
                        Frac(100 * m5["correct_answers"], m5["questions_answered"])))
       ELSE m5

\* user_progress.py lines 82-113: _merge_stats
MergeStats(existing, new) ==
    LET m1 == Put(existing, "current_level",
                  Get(new, "current_level", Get(existing, "current_level", "easy")))
        m2 == Put(m1, "questions_answered",
                  Get(existing, "questions_answered", 0) + Get(new, "questions_answered", 0))
        m3 == Put(m2, "correct_answers",
                  Get(existing, "correct_answers", 0) + Get(new, "correct_answers", 0))
        m4 == Put(m3, "total_score",
                  Get(existing, "total_score", 0) + Get(new, "total_score", 0))
        m5 == IF Get(new, "questions_answered", 0) > 0
              THEN Put(m4, "sessions_played", Get(existing, "sessions_played", 0) + 1)
              ELSE m4
    IN IF m5["questions_answered"] > 0
       THEN Put(m5, "best_accuracy",
                MaxFrac(Get(existing, "best_accuracy", Frac(0, 1)),
                        Frac(100 * m5["correct_answers"], m5["questions_answered"])))
       ELSE m5

\* user_progress.py lines 36-62: save_stats, the dict it writes to the file
SaveStats(stats) ==
    MergeStats(IF file_exists THEN stats_file ELSE EmptyDict, stats)

\* user_progress.py lines 20-34: load_stats, the dict it returns
LoadStats == IF file_exists THEN stats_file ELSE InitialStats

\* user_progress.py lines 20-34: load_stats, the file it leaves
LoadStatsFile == IF file_exists THEN stats_file ELSE SaveStats(InitialStats)

\* user_progress.py lines 115-134: get_user_summary (without overall_accuracy)
GetUserSummary ==
    LET stats == LoadStats
    IN [total_questions |-> Get(stats, "questions_answered", 0),
        total_correct |-> Get(stats, "correct_answers", 0),
        current_level |-> Get(stats, "current_level", "easy"),
        total_score |-> Get(stats, "total_score", 0),
        sessions_played |-> Get(stats, "sessions_played", 0),
        best_accuracy |-> Get(stats, "best_accuracy", Frac(0, 1))]

\* quiz_game.py lines 263-268: the score update_statistics shows
Score(level, correct) ==
    IF level = "medium" THEN correct * 15
    ELSE IF level = "hard" THEN correct * 20
    ELSE correct * 10

\* quiz_game.py lines 275-280: the dict save_progress passes to save_stats
ProgressStats(level, answered, correct, score) ==
    Dict([current_level |-> level, questions_answered |-> answered,
          correct_answers |-> correct, total_score |-> score])

\* user_progress.py lines 36-62, called with a dict as save_progress builds it
SaveStatsCall(level, answered, correct) ==
    /\ Get(stats_file, "questions_answered", 0) + answered <= MaxStored
    /\ stats_file' = SaveStats(ProgressStats(level, answered, correct,
                                             Score(level, correct)))
    /\ file_exists' = TRUE
    /\ event' = "save_stats"
    /\ UNCHANGED <<dmVars, cfgVars, obsVars, guiVars, graded, answers, session_start>>

\* user_progress.py lines 20-34
LoadStatsCall ==
    /\ stats_file' = LoadStatsFile
    /\ file_exists' = TRUE
    /\ event' = "load_stats"
    /\ UNCHANGED <<dmVars, cfgVars, obsVars, guiVars, graded, answers, session_start>>

\* user_progress.py lines 136-143
ResetStatsCall ==
    /\ stats_file' = SaveStats(InitialStats)
    /\ file_exists' = TRUE
    /\ event' = "reset_stats"
    /\ UNCHANGED <<dmVars, cfgVars, obsVars, guiVars, graded, answers, session_start>>

\* ---------------------------------------------------------------- quiz_game
\* question banks tried: every level has questions, or 'medium' has none
BankChoices == {{"easy", "medium", "hard"}, {"easy", "hard"}}

\* quiz_game.py lines 151-170 with display_question (172-201) and end_quiz
\* (312-317): load_next_question, after the caller set game_active to active,
\* the Start button to start and correct_answers to correct
LoadNextQuestion(active, start, correct) ==
    IF current_level \in bank
    THEN /\ current_question' = current_level
         /\ selected_answer' = ""
         /\ answer_buttons' = TRUE
         /\ submit_button' = "normal"
         /\ next_button' = "disabled"
         /\ score_label' = Score(current_level, correct)
         /\ game_active' = active
         /\ start_button' = start
         /\ graded' = 0
    ELSE /\ current_question' = "none"
         /\ game_active' = FALSE
         /\ start_button' = "normal"
         /\ submit_button' = "disabled"
         /\ next_button' = "disabled"
         /\ UNCHANGED <<selected_answer, answer_buttons, score_label, graded>>

\* quiz_game.py lines 135-149: the Start Quiz button
StartQuiz ==
    /\ start_button = "normal"
    /\ questions_answered' = 0
    /\ correct_answers' = 0
    /\ LoadNextQuestion(TRUE, "disabled", 0)
    /\ event' = "start_quiz"
    /\ session_start' = StoredCounters(stats_file)
    /\ UNCHANGED <<dmVars, cfgVars, obsVars, fileVars, bank, answers>>

\* a radio button is clicked: the correct option or another one
SelectAnswer(option) ==
    /\ answer_buttons
    /\ selected_answer' = option
    /\ event' = "select"
    /\ UNCHANGED <<dmVars, cfgVars, obsVars, fileVars, bank, game_active,
                   questions_answered, correct_answers, current_question,
                   answer_buttons, start_button, submit_button, next_button,
                   score_label, graded, answers, session_start>>

\* slip: the Submit button is not disabled after grading
SubmitAnswerStaysEnabled ==
    /\ submit_button = "normal"
    /\ IF selected_answer = "" \/ current_question = "none"
       THEN /\ event' = IF selected_answer = "" THEN "submit_rejected"
                        ELSE "submit_no_question"
            /\ UNCHANGED <<dmVars, cfgVars, obsVars, fileVars, guiVars,
                           graded, answers, session_start>>
       ELSE LET is_correct == selected_answer = "right"
            IN /\ answers < MaxAnswers
               /\ questions_answered' = questions_answered + 1
               /\ correct_answers' = IF is_correct THEN correct_answers + 1
                                     ELSE correct_answers
               /\ DmUpdateDifficulty(is_correct)
               /\ score_label' = Score(current_level', correct_answers')
               /\ next_button' = "normal"
               /\ stats_file' = SaveStats(ProgressStats(current_level', questions_answered',
                                                        correct_answers', score_label'))
               /\ file_exists' = TRUE
               /\ event' = "submit_answer"
               /\ graded' = graded + 1
               /\ answers' = answers + 1
               /\ UNCHANGED <<bank, game_active, current_question, selected_answer,
                              answer_buttons, start_button, submit_button,
                              session_start>>

\* quiz_game.py lines 203-241 with update_statistics (247-270) and
\* save_progress (272-283): the Submit Answer button
SubmitAnswer ==
    /\ submit_button = "normal"
    /\ IF selected_answer = "" \/ current_question = "none"
       THEN /\ event' = IF selected_answer = "" THEN "submit_rejected"
                        ELSE "submit_no_question"
            /\ UNCHANGED <<dmVars, cfgVars, obsVars, fileVars, guiVars,
                           graded, answers, session_start>>
       ELSE LET is_correct == selected_answer = "right"
            IN /\ answers < MaxAnswers
               /\ questions_answered' = questions_answered + 1
               /\ correct_answers' = IF is_correct THEN correct_answers + 1
                                     ELSE correct_answers
               /\ DmUpdateDifficulty(is_correct)
               /\ score_label' = Score(current_level', correct_answers')
               /\ submit_button' = "disabled"
               /\ next_button' = "normal"
               /\ stats_file' = SaveStats(ProgressStats(current_level', questions_answered',
                                                        correct_answers', score_label'))
               /\ file_exists' = TRUE
               /\ event' = "submit_answer"
               /\ graded' = graded + 1
               /\ answers' = answers + 1
               /\ UNCHANGED <<bank, game_active, current_question, selected_answer,
                              answer_buttons, start_button, session_start>>

\* quiz_game.py lines 243-245: the Next Question button
NextQuestion ==
    /\ next_button = "normal"
    /\ LoadNextQuestion(game_active, start_button, correct_answers)
    /\ event' = "next_question"
    /\ UNCHANGED <<dmVars, cfgVars, obsVars, fileVars, bank,
                   questions_answered, correct_answers, answers, session_start>>

\* slip: the Next button is not disabled by Reset Game
ResetGameLeavesNext ==
    /\ game_active' = FALSE
    /\ questions_answered' = 0
    /\ correct_answers' = 0
    /\ DmReset
    /\ answer_buttons' = FALSE
    /\ start_button' = "normal"
    /\ submit_button' = "disabled"
    /\ score_label' = Score(current_level', 0)
    /\ stats_file' = SaveStats(ProgressStats(current_level', 0, 0, score_label'))
    /\ file_exists' = TRUE
    /\ event' = "reset_game"
    /\ UNCHANGED <<bank, current_question, selected_answer, next_button,
                   graded, answers, session_start>>

\* quiz_game.py lines 285-310: the Reset Game button
ResetGame ==
    /\ game_active' = FALSE
    /\ questions_answered' = 0
    /\ correct_answers' = 0
    /\ DmReset
    /\ answer_buttons' = FALSE
    /\ start_button' = "normal"
    /\ submit_button' = "disabled"
    /\ next_button' = "disabled"
    /\ score_label' = Score(current_level', 0)
    /\ stats_file' = SaveStats(ProgressStats(current_level', 0, 0, score_label'))
    /\ file_exists' = TRUE
    /\ event' = "reset_game"
    /\ UNCHANGED <<bank, current_question, selected_answer, graded, answers, session_start>>

\* main.py lines 16-35 and quiz_game.py lines 15-30, 118-133: the program is
\* closed and started again; QuizGame.__init__ builds a new controller and
\* load_initial_data takes the level from the progress file
Launch ==
    /\ bank' \in BankChoices
    /\ game_active' = FALSE
    /\ questions_answered' = 0
    /\ correct_answers' = 0
    /\ current_question' = "none"
    /\ selected_answer' = ""
    /\ answer_buttons' = FALSE
    /\ start_button' = "normal"
    /\ submit_button' = "disabled"
    /\ next_button' = "disabled"
    /\ stats_file' = LoadStatsFile
    /\ file_exists' = TRUE
    /\ LET stats == LoadStats
           level == IF stats # EmptyDict THEN Get(stats, "current_level", "easy")
                    ELSE "easy"
       IN /\ current_level' = level
          /\ start_level' = level
          /\ score_label' = Score(level, 0)
          /\ last' = [Constructed EXCEPT !.level = level]
    /\ recent_performance' = <<>>
    /\ log' = <<>>
    /\ since' = -1
    /\ event' = "launch"
    /\ graded' = 0
    /\ UNCHANGED <<cfgVars, answers, session_start>>

\* ------------------------------------------------------------------- specs
\* the application around the controller before it is launched: no progress
\* file, no game
NoApp ==
    /\ file_exists = FALSE
    /\ stats_file = EmptyDict
    /\ bank = {}
    /\ game_active = FALSE
    /\ questions_answered = 0
    /\ correct_answers = 0
    /\ current_question = "none"
    /\ selected_answer = ""
    /\ answer_buttons = FALSE
    /\ start_button = "normal"
    /\ submit_button = "disabled"
    /\ next_button = "disabled"
    /\ score_label = 0
    /\ event = "none"
    /\ graded = 0
    /\ answers = 0
    /\ session_start = StoredCounters(stats_file)

\* lines 8-14
Init ==
    /\ NoApp
    /\ current_level = "easy"
    /\ recent_performance = <<>>
    /\ performance_window = DefaultWindow
    /\ promotion_threshold = DefaultPromotion
    /\ demotion_threshold = DefaultDemotion
    /\ last = Constructed
    /\ log = <<>>
    /\ start_level = "easy"
    /\ since = -1

\* lines 12-14 with other values: performance_window, promotion_threshold and
\* demotion_threshold are plain instance fields that no method assigns after
\* construction; this initial state covers the configurations (window sizes
\* 1..MaxWindow, thresholds in any order) that the properties about "every
\* window size" and "any threshold configuration" range over.
InitCfg ==
    /\ NoApp
    /\ current_level = "easy"
    /\ recent_performance = <<>>
    /\ performance_window \in 1..MaxWindow
    /\ promotion_threshold \in ThresholdChoices
    /\ demotion_threshold \in ThresholdChoices
    /\ last = Constructed
    /\ log = <<>>
    /\ start_level = "easy"
    /\ since = -1

Next ==
    \/ \E is_correct \in BOOLEAN : UpdateDifficulty(is_correct)
    \/ \E level \in LevelArgs : ForceLevel(level)
    \/ Reset

Spec == Init /\ [][Next]_vars

SpecCfg == InitCfg /\ [][Next]_vars

\* the controller with its query operations
NextQuery ==
    \/ Next
    \/ CanPromoteCall
    \/ CanDemoteCall
    \/ GetNextLevelCall
    \/ GetPreviousLevelCall
    \/ GetCurrentAccuracyCall
    \/ GetDifficultyInfoCall

SpecQuery == Init /\ [][NextQuery]_vars

\* the progress file under save_stats, load_stats and reset_stats
NextProgress ==
    \/ \E level \in {"easy", "medium", "hard"} :
           \E answered \in 0..MaxSession : \E correct \in 0..answered :
               SaveStatsCall(level, answered, correct)
    \/ LoadStatsCall
    \/ ResetStatsCall

SpecProgress == Init /\ [][NextProgress]_vars

\* the program right after its first launch: no progress file was there,
\* load_stats wrote the initial one
InitGame ==
    /\ current_level = "easy"
    /\ recent_performance = <<>>
    /\ performance_window = DefaultWindow
    /\ promotion_threshold = DefaultPromotion
    /\ demotion_threshold = DefaultDemotion
    /\ last = Constructed
    /\ log = <<>>
    /\ start_level = "easy"
    /\ since = -1
    /\ file_exists = TRUE
    /\ stats_file = MergeStats(EmptyDict, InitialStats)
    /\ bank \in BankChoices
    /\ game_active = FALSE
    /\ questions_answered = 0
    /\ correct_answers = 0
    /\ current_question = "none"
    /\ selected_answer = ""
    /\ answer_buttons = FALSE
    /\ start_button = "normal"
    /\ submit_button = "disabled"
    /\ next_button = "disabled"
    /\ score_label = 0
    /\ event = "launch"
    /\ graded = 0
    /\ answers = 0
    /\ session_start = StoredCounters(stats_file)

\* the buttons of the window, and closing and starting the program
NextGame ==
    \/ StartQuiz
    \/ \E option \in {"right", "wrong"} : SelectAnswer(option)
    \/ SubmitAnswer
    \/ NextQuestion
    \/ ResetGame
    \/ Launch

SpecGame == InitGame /\ [][NextGame]_vars

\* quiz_game.py lines 118-133: the program right after a launch that found a
\* progress file, written by an earlier run or by hand, whose current_level is
\* any of the strings tried; load_initial_data copies it into the controller
InitLoad ==
    /\ \E level \in LevelArgs :
           /\ stats_file = Put(MergeStats(EmptyDict, InitialStats),
                               "current_level", level)
           /\ current_level = Get(stats_file, "current_level", "easy")
    /\ start_level = current_level
    /\ last = [Constructed EXCEPT !.level = current_level]
    /\ score_label = Score(current_level, 0)
    /\ recent_performance = <<>>
    /\ performance_window = DefaultWindow
    /\ promotion_threshold = DefaultPromotion
    /\ demotion_threshold = DefaultDemotion
    /\ log = <<>>
    /\ since = -1
    /\ file_exists = TRUE
    /\ bank \in BankChoices
    /\ game_active = FALSE
    /\ questions_answered = 0
    /\ correct_answers = 0
    /\ current_question = "none"
    /\ selected_answer = ""
    /\ answer_buttons = FALSE
    /\ start_button = "normal"
    /\ submit_button = "disabled"
    /\ next_button = "disabled"
    /\ event = "launch"
    /\ graded = 0
    /\ answers = 0
    /\ session_start = StoredCounters(stats_file)

SpecLoad == InitLoad /\ [][NextGame]_vars

\* ------------------------------------------------------------- properties
\* number of correct outcomes in h, counted without the model's Sum
CountTrue(h) == Cardinality({i \in 1..Len(h) : h[i]})

\* the tier one above / one below a level, by position in the ordered list
TierAbove(level) ==
    CASE level = "easy" -> "medium" [] level = "medium" -> "hard" [] OTHER -> "none"
TierBelow(level) ==
    CASE level = "hard" -> "medium" [] level = "medium" -> "easy" [] OTHER -> "none"

\* s is a prefix of t
IsPrefix(s, t) == Len(s) <= Len(t) /\ \A i \in 1..Len(s) : s[i] = t[i]

Updated == last.op = "update_difficulty"
\* the call left the window full after append and evict
WindowFull == Updated /\ Len(last.window) = performance_window
\* the promotion rule applied to the call: 80% or more correct, not at the top
PromotionDue == WindowFull /\ 5 * CountTrue(last.window) >= 4 * Len(last.window)
                           /\ last.level # "hard"
\* 40% or fewer correct, not at the bottom
DemotionDue == WindowFull /\ 5 * CountTrue(last.window) <= 2 * Len(last.window)
                          /\ last.level # "easy"

FiveCorrect == <<TRUE, TRUE, TRUE, TRUE, TRUE>>
FourWrongOneRight == <<FALSE, FALSE, FALSE, TRUE, FALSE>>

\* C1: a call that leaves the window full with at least 80% correct, below the
\* highest level, raises the level by exactly one tier and leaves at most 2
\* entries in the history; from a fresh controller five correct answers
\* promote easy -> medium on the 5th call and on no earlier one.
C1_Promotion ==
    /\ PromotionDue => /\ current_level = TierAbove(last.level)
                       /\ Len(recent_performance) <= 2
    /\ (start_level = "easy" /\ IsPrefix(log, FiveCorrect)) =>
           IF Len(log) = 5
           THEN current_level = "medium"
           ELSE current_level = "easy"

C1_Witness ==
    /\ start_level = "easy" /\ log = FiveCorrect
    /\ PromotionDue /\ last.result = "Promoted" /\ current_level = "medium"

\* C2: a call that leaves the window full, on which promotion did not fire,
\* with at most 40% correct, above the lowest level, lowers the level by
\* exactly one tier and truncates the history; after force_level('medium')
\* the outcomes false,false,false,true,false demote medium -> easy on the 5th
\* call and on no earlier one.
C2_Demotion ==
    /\ (DemotionDue /\ ~PromotionDue) => /\ current_level = TierBelow(last.level)
                                         /\ Len(recent_performance) <= 2
    /\ (start_level = "medium" /\ IsPrefix(log, FourWrongOneRight)) =>
           IF Len(log) = 5
           THEN current_level = "easy"
           ELSE current_level = "medium"

C2_Witness ==
    /\ start_level = "medium" /\ log = FourWrongOneRight
    /\ DemotionDue /\ last.result = "Demoted" /\ current_level = "easy"

\* C3: the history never holds more than performance_window (5) entries,
\* whatever the interleaving of update_difficulty, force_level and reset.
C3_WindowBound == Len(recent_performance) <= performance_window

\* an update on an already full history: the append overflowed and evicted
C3_Witness ==
    /\ Updated /\ Len(last.history) = performance_window
    /\ Len(recent_performance) = performance_window

\* C4: an update_difficulty call whose window (the history after the append)
\* holds fewer than performance_window entries leaves the level unchanged,
\* whatever the outcomes; the first 4 calls on a fresh controller never change
\* the level.
C4_NoEvaluationBeforeFill ==
    /\ (Updated /\ Len(last.window) < performance_window) =>
           current_level = last.level
    /\ Len(log) <= 4 => current_level = start_level

\* four correct answers in a row, still one short of the window
C4_Witness ==
    /\ Updated /\ log = <<TRUE, TRUE, TRUE, TRUE>>
    /\ start_level = "easy" /\ current_level = "easy"

\* C5 (as stated): after any transition made by update_difficulty, for every
\* window size >= 1, the history is the last 2 entries of the window in their
\* order, and the whole window when it holds fewer than 2 entries.
C5_PartialReset ==
    (Updated /\ last.result \in {"Promoted", "Demoted"}) =>
        LET w == last.window
            n == IF Len(w) < 2 THEN Len(w) ELSE 2
        IN recent_performance = [i \in 1..n |-> w[Len(w) - n + i]]

\* position of a level in the ordered list
Rank(level) == CASE level = "easy" -> 0 [] level = "medium" -> 1 [] OTHER -> 2

Transitioned == Updated /\ current_level # last.level

\* C6: between two consecutive transitions made by update_difficulty with no
\* force_level or reset in between, at least performance_window - 2 (= 3)
\* calls occur, the one making the second transition included; one call right
\* after a transition never makes another transition.
C6_Spacing ==
    (Transitioned /\ last.gap # -1) =>
        /\ last.gap >= performance_window - 2
        /\ last.gap >= 3
        /\ last.gap # 1

\* a second transition exactly three calls after the first
C6_Witness == Transitioned /\ last.gap = 3

\* C7: at 'easy' no update_difficulty call demotes and can_demote() is false;
\* at 'hard' no call promotes and can_promote() is false.
C7_Saturation ==
    /\ (Updated /\ last.level = "easy") =>
           /\ last.result # "Demoted"
           /\ current_level \in {"easy", "medium"}
    /\ (Updated /\ last.level = "hard") =>
           /\ last.result # "Promoted"
           /\ current_level \in {"hard", "medium"}
    /\ current_level = "easy" => ~CanDemote(current_level)
    /\ current_level = "hard" => ~CanPromote(current_level)

\* a full window of wrong answers at the lowest level
C7_Witness ==
    /\ WindowFull /\ last.level = "easy" /\ CountTrue(last.window) = 0
    /\ current_level = "easy"

\* C8: current_level is always one of easy, medium, hard, whatever argument
\* force_level is given, and a constructed controller is at easy with an
\* empty history.
C8_LevelValidity ==
    /\ current_level \in {"easy", "medium", "hard"}
    /\ last.op = "__init__" => current_level = "easy" /\ recent_performance = <<>>

\* force_level was called with a value that is not a level
C8_Witness ==
    /\ last.op = "force_level" /\ last.arg = "expert"
    /\ current_level = "hard"

\* the two threshold tests on the window of the last call, by counting
PromotionCond ==
    100 * CountTrue(last.window) >= promotion_threshold * Len(last.window)
DemotionCond ==
    100 * CountTrue(last.window) <= demotion_threshold * Len(last.window)

\* C9: every update_difficulty call moves the level by one tier up, one tier
\* down or not at all; for any thresholds a full window meeting both tests at
\* the middle level promotes; when neither rule applies the level is unchanged
\* and the history is the untruncated window.
C9_OneStep ==
    Updated =>
        /\ Rank(current_level) - Rank(last.level) \in {-1, 0, 1}
        /\ (WindowFull /\ PromotionCond /\ DemotionCond /\ last.level = "medium")
               => current_level = "hard"
        /\ (/\ ~(WindowFull /\ PromotionCond /\ last.level # "hard")
            /\ ~(WindowFull /\ DemotionCond /\ last.level # "easy"))
               => current_level = last.level /\ recent_performance = last.window

\* crossed thresholds, both tests met at the middle level
C9_Witness ==
    /\ WindowFull /\ PromotionCond /\ DemotionCond /\ last.level = "medium"
    /\ demotion_threshold >= promotion_threshold
    /\ current_level = "hard"

\* s is the tail end of t
IsSuffix(s, t) ==
    Len(s) <= Len(t) /\ \A i \in 1..Len(s) : s[i] = t[Len(t) - Len(s) + i]

\* C10: the history is, in order and most recent last, the len(history) most
\* recent outcomes passed to update_difficulty since the history was last
\* cleared; eviction and truncation only drop the oldest entries.
C10_Fifo ==
    /\ IsSuffix(recent_performance, log)
    /\ Updated => /\ IsSuffix(last.window, Append(last.history, last.is_correct))
                  /\ IsSuffix(recent_performance, last.window)

\* an eviction from a full window holding both outcomes
C10_Witness ==
    /\ Updated /\ Len(last.history) = performance_window /\ Len(log) > performance_window
    /\ recent_performance = <<TRUE, FALSE, FALSE, TRUE, FALSE>>

Queried == last.op \in {"can_promote", "can_demote", "get_next_level",
                        "get_previous_level", "get_current_accuracy",
                        "get_difficulty_info"}

\* the fraction a (num / den) is exactly 100 * (correct in h) / len(h), 0 if empty
IsPercentCorrect(a, h) ==
    IF Len(h) = 0 THEN a.num = 0 /\ a.den # 0
    ELSE a.den # 0 /\ a.num * Len(h) = 100 * CountTrue(h) * a.den

\* C11: in every reachable state, right after a transition included,
\* get_current_accuracy() is 0 for an empty history and otherwise
\* 100 * (true entries) / len(history), over the current length of the
\* history and not over the window size.
C11_AccuracyQuery ==
    /\ IsPercentCorrect(GetCurrentAccuracy(recent_performance), recent_performance)
    /\ last.op = "get_current_accuracy" => IsPercentCorrect(last.value, last.history)
    /\ last.op = "get_difficulty_info" =>
           IsPercentCorrect(last.value.recent_accuracy, last.history)

\* the query right after a transition left the 2 entries true, false
C11_Witness ==
    /\ last.op = "get_current_accuracy" /\ since = 0
    /\ recent_performance = <<TRUE, FALSE>>
    /\ last.value.num = 50 * last.value.den

\* C12: force_level with a member of the level list sets current_level to
\* that level and empties the history, from any level and any history.
C12_ForceValid ==
    (last.op = "force_level" /\ last.arg \in {"easy", "medium", "hard"}) =>
        current_level = last.arg /\ recent_performance = <<>>

\* forced from hard with a non-empty history down to easy
C12_Witness ==
    /\ last.op = "force_level" /\ last.arg = "easy" /\ last.level = "hard"
    /\ Len(last.history) = 2 /\ current_level = "easy"

\* C13: force_level with a value that is not a level leaves current_level and
\* the history as they were.
C13_ForceInvalid ==
    (last.op = "force_level" /\ last.arg \notin {"easy", "medium", "hard"}) =>
        current_level = last.level /\ recent_performance = last.history

\* an invalid level given at medium with a non-empty history
C13_Witness ==
    /\ last.op = "force_level" /\ last.arg = "expert" /\ last.result = "InvalidLevel"
    /\ current_level = "medium" /\ Len(recent_performance) = 3

\* C14: reset() yields the state of a fresh controller (easy, empty history)
\* from any state, and a second reset() right after it changes nothing.
C14_ResetIdempotent ==
    /\ [](last.op = "reset" => current_level = "easy" /\ recent_performance = <<>>)
    /\ [][(last.op = "reset" /\ last'.op = "reset") =>
              (current_level' = current_level /\ recent_performance' = recent_performance
               /\ UNCHANGED cfgVars)]_vars

\* a reset from hard with a non-empty history
C14_Witness ==
    /\ last.op = "reset" /\ last.level = "hard" /\ Len(last.history) = 4
    /\ current_level = "easy"

\* C15: can_promote() iff the level is not the last, can_demote() iff it is
\* not the first, get_next_level() / get_previous_level() return the adjacent
\* tier or the current level at the ends, and no query changes current_level
\* or the history.
C15_Queries ==
    /\ CanPromote(current_level) <=> Rank(current_level) < 2
    /\ CanDemote(current_level) <=> Rank(current_level) > 0
    /\ GetNextLevel(current_level) =
           (IF current_level = "hard" THEN "hard" ELSE TierAbove(current_level))
    /\ GetPreviousLevel(current_level) =
           (IF current_level = "easy" THEN "easy" ELSE TierBelow(current_level))
    /\ Queried => current_level = last.level /\ recent_performance = last.history
    /\ last.op = "can_promote" => (last.value <=> Rank(last.level) < 2)
    /\ last.op = "can_demote" => (last.value <=> Rank(last.level) > 0)
    /\ last.op = "get_next_level" =>
           last.value = (IF last.level = "hard" THEN "hard" ELSE TierAbove(last.level))
    /\ last.op = "get_previous_level" =>
           last.value = (IF last.level = "easy" THEN "easy" ELSE TierBelow(last.level))
    /\ last.op = "get_difficulty_info" =>
           /\ last.value.current_level = last.level
           /\ last.value.level_index = Rank(last.level)
           /\ last.value.questions_in_window = Len(last.history)

\* a saturating peek: get_next_level() at the highest level
C15_Witness ==
    /\ last.op = "get_next_level" /\ last.level = "hard" /\ last.value = "hard"
    /\ current_level = "hard" /\ Len(recent_performance) = 2

\* the two threshold tests as the specification words them, over the window size
PromotionOverWindow ==
    100 * CountTrue(last.window) >= promotion_threshold * performance_window
DemotionOverWindow ==
    100 * CountTrue(last.window) <= demotion_threshold * performance_window

\* C19: whenever update_difficulty evaluates the thresholds the history holds
\* exactly performance_window entries, so sum/len agrees with count/windowSize
\* on both tests, and the guard len >= windowSize is the guard len = windowSize.
C19_DenominatorEquivalence ==
    Updated =>
        /\ EnoughData(last.window, performance_window)
               <=> Len(last.window) = performance_window
        /\ EnoughData(last.window, performance_window) =>
               /\ MeetsPromotion(last.window, promotion_threshold) <=> PromotionOverWindow
               /\ MeetsDemotion(last.window, demotion_threshold) <=> DemotionOverWindow

\* an evaluation on a window that an eviction kept at five entries
C19_Witness ==
    /\ Updated /\ Len(last.history) = performance_window
    /\ Len(last.window) = performance_window /\ last.result = "NoChange"
    /\ CountTrue(last.window) = 3

\* C20 (as stated): update_difficulty lowers the level only when strictly
\* fewer than 40% of the full window are correct; exactly 2 of 5 correct never
\* demotes.
C20_DemotionOnlyBelow ==
    (Updated /\ Rank(current_level) < Rank(last.level)) =>
        5 * CountTrue(last.window) < 2 * Len(last.window)

\* C18 (as stated): after reset_stats() returns True the stored
\* questions_answered, correct_answers, total_score and sessions_played are 0,
\* best_accuracy is 0.0 and current_level is 'easy', whatever was stored.
C18_ResetStats ==
    event = "reset_stats" =>
        /\ Get(stats_file, "questions_answered", 0) = 0
        /\ Get(stats_file, "correct_answers", 0) = 0
        /\ Get(stats_file, "total_score", 0) = 0
        /\ Get(stats_file, "sessions_played", 0) = 0
        /\ Get(stats_file, "best_accuracy", Frac(0, 1)).num = 0
        /\ Get(stats_file, "current_level", "easy") = "easy"

\* C16: in the window's flow update_difficulty is called once per graded
\* submission: at most one outcome is recorded per displayed question, a step
\* calls update_difficulty exactly when it increments questions_answered, and
\* a Submit with nothing selected (or with no question) records nothing.
C16_OncePerSubmission ==
    /\ [](graded <= 1)
    /\ [][(Len(log') = Len(log) + 1) <=> (questions_answered' = questions_answered + 1)]_vars
    /\ [][event' \in {"submit_rejected", "submit_no_question"} =>
              (/\ log' = log
               /\ recent_performance' = recent_performance
               /\ current_level' = current_level
               /\ questions_answered' = questions_answered
               /\ correct_answers' = correct_answers
               /\ stats_file' = stats_file)]_vars

\* the second question of a session was graded, after a Submit with nothing
\* selected had been refused on it
C16_Witness ==
    /\ event = "submit_answer" /\ graded = 1
    /\ questions_answered = 2 /\ Len(log) = 2
    /\ submit_button = "disabled" /\ next_button = "normal"

\* a Submit with nothing selected was refused on a displayed question
C16_RejectedReached ==
    event = "submit_rejected" /\ current_question # "none" /\ graded = 0

Controller == [level |-> current_level, history |-> recent_performance]

RECURSIVE Sustained(_, _, _)
\* the controller after n further update_difficulty calls that all pass x
\* (a level outside the list would end the run)
Sustained(s, n, x) ==
    IF n = 0 \/ ~IsLevel(s.level) THEN s
    ELSE Sustained(UpdateDifficultyResult(s, x), n - 1, x)

\* the level a run of equal outcomes drives to
Target(x) == IF x THEN "hard" ELSE "easy"

\* C21: from every reachable state, if every further update_difficulty call
\* is correct the level is 'hard' after 8 calls and after every later call
\* (checked up to Horizon calls, where the controller no longer changes, so
\* for ever); if every further call is incorrect the same holds with 'easy'.
\* The function followed is the one the call applies, and a run of 8 equal
\* outcomes actually made ends at the target level.
C21_SustainedProgress ==
    /\ \A x \in BOOLEAN :
           /\ \A n \in 8..Horizon : Sustained(Controller, n, x).level = Target(x)
           /\ Sustained(Controller, Horizon + 1, x) = Sustained(Controller, Horizon, x)
           /\ (Len(log) >= 8 /\ \A i \in 1..Len(log) : log[i] = x) =>
                  current_level = Target(x)
    /\ Updated =>
           Controller = UpdateDifficultyResult(
               [level |-> last.level, history |-> last.history], last.is_correct)

\* the slowest start: medium after three wrong answers needs all 8 correct
\* calls (demoted on the 2nd, promoted on the 5th and on the 8th)
C21_Witness ==
    /\ current_level = "medium" /\ recent_performance = <<FALSE, FALSE, FALSE>>
    /\ Updated
    /\ Sustained(Controller, 2, TRUE).level = "easy"
    /\ Sustained(Controller, 7, TRUE).level = "medium"
    /\ Sustained(Controller, 8, TRUE).level = "hard"

\* the call raised / lowered the level
Raised == Updated /\ Rank(current_level) > Rank(last.level)
Lowered == Updated /\ Rank(current_level) < Rank(last.level)

\* C22 (as stated): a promotion is only ever made by an update_difficulty call
\* whose outcome is correct, and a demotion only by a call whose outcome is
\* incorrect.
C22_DirectionMatchesAnswer ==
    /\ Raised => last.is_correct
    /\ Lowered => ~last.is_correct

\* C22 (amended): the direction matches the window the call leaves, not the
\* answer itself: a promotion is only made by a call that leaves a full window
\* with at least 80% correct, and by an incorrect call only when the four
\* other entries are correct; a demotion is only made by a call that leaves a
\* full window with at most 40% correct, and by a correct call only when at
\* most one other entry is correct.
C22_DirectionMatchesWindow ==
    /\ Raised => /\ Len(last.window) = performance_window
                 /\ 5 * CountTrue(last.window) >= 4 * Len(last.window)
                 /\ ~last.is_correct =>
                        CountTrue(last.window) = Len(last.window) - 1
    /\ Lowered => /\ Len(last.window) = performance_window
                  /\ 5 * CountTrue(last.window) <= 2 * Len(last.window)
                  /\ last.is_correct => CountTrue(last.window) - 1 <= 1

\* a promotion made by an incorrect answer: true,true,true,true,false
C22_Witness ==
    /\ Raised /\ ~last.is_correct
    /\ last.window = <<TRUE, TRUE, TRUE, TRUE, FALSE>>

\* a demotion made by a correct answer
C22_LoweredByCorrect == Lowered /\ last.is_correct

\* how many of the Start, Submit and Next buttons are enabled
EnabledButtons ==
    Cardinality({i \in 1..3 :
                    <<start_button, submit_button, next_button>>[i] = "normal"})
\* a question is on display and no answer to it was graded yet
AwaitingAnswer == answer_buttons /\ current_question # "none" /\ graded = 0
\* the question on display was graded
JustGraded == answer_buttons /\ current_question # "none" /\ graded > 0

\* C24: after every handler of the window (and after a launch) exactly one of
\* the Start, Submit and Next buttons is enabled; Start is enabled iff
\* game_active is false, Submit iff a question is awaiting an answer, Next iff
\* the question on display has just been graded.
C24_ButtonProtocol ==
    /\ EnabledButtons = 1
    /\ start_button = "normal" <=> ~game_active
    /\ submit_button = "normal" <=> AwaitingAnswer
    /\ next_button = "normal" <=> JustGraded

\* Next Question found no question for the new level and ended the quiz
C24_Witness ==
    /\ event = "next_question" /\ ~game_active /\ start_button = "normal"
    /\ answers > 0

\* each of the three buttons is the enabled one in some state
C24_SubmitEnabled == event = "start_quiz" /\ submit_button = "normal"
C24_NextEnabled == event = "submit_answer" /\ next_button = "normal"

\* the state was produced by a graded submission
Graded == event = "submit_answer"

\* C25 (as stated): after any sequence of graded submissions in a session the
\* stored questions_answered equals its value when the session started plus
\* the number of answers submitted in the session, and the stored
\* correct_answers grows by the number of correct submissions.
C25_TotalsCountOnce ==
    Graded =>
        /\ GetUserSummary.total_questions =
               session_start.questions_answered + questions_answered
        /\ Get(stats_file, "correct_answers", 0) =
               session_start.correct_answers + correct_answers

\* C26 (as stated): during one quiz session (one Start Quiz followed by any
\* number of graded submissions) the stored sessions_played increases by at
\* most 1.
C26_OneSessionOneIncrement ==
    Graded =>
        Get(stats_file, "sessions_played", 0) <= session_start.sessions_played + 1

\* C23 (as stated): whatever current_level the loaded progress file carries,
\* after load_initial_data the controller's current_level is one of 'easy',
\* 'medium', 'hard', so that levels.index(current_level) in update_difficulty,
\* can_promote, can_demote, get_next_level, get_previous_level and
\* get_difficulty_info finds it.
C23_LoadedLevelValid ==
    current_level \in {"easy", "medium", "hard"}

\* shape of the observers
TypeOK ==
    /\ Len(log) <= MaxLog
    /\ since \in -1..MaxLog
    /\ start_level \in {"easy", "medium", "hard"}
    /\ last.op \in {"__init__", "update_difficulty", "force_level", "reset"} \/ Queried
====
